---- MODULE Spec2Model ----
(***************************************************************************)
(* Model of the evaluation helpers of lab1_evalFunctions.py (calcAccuracy, *)
(* calcConfusionMatrix, calcAccuracyCM) and of the layer assembly done by  *)
(* build_DNN in utilities.py.                                              *)
(*                                                                         *)
(* Spec    : one call sequence of the evaluation helpers on a pair of      *)
(*           label sequences drawn in Init.                                *)
(* SpecDNN : one call of build_DNN on a configuration drawn in InitDNN.    *)
(***************************************************************************)
EXTENDS Integers, Sequences, FiniteSets

VARIABLES
    LPred,     \* predicted labels (argument)
    LTrue,     \* ground-truth labels (argument)
    accStatus, \* how the call of calcAccuracy ended ("none": not called)
    cmStatus,  \* how the call of calcConfusionMatrix ended
    accCMStatus, \* how the call of calcAccuracyCM ended
    acc,       \* value returned by calcAccuracy
    compared,  \* number of label comparisons calcAccuracy carried out
    classNum,  \* local classNum of calcConfusionMatrix
    cM,        \* matrix returned by calcConfusionMatrix
    counted,   \* number of zip pairs calcConfusionMatrix added to cM
    accCM,     \* value returned by calcAccuracyCM
    divided,   \* TRUE once calcAccuracyCM has evaluated trueSum/N
    dpc,       \* position inside build_DNN
    cfg,       \* arguments of build_DNN
    optimizer, \* the optimizer object bound at lines 79-84
    layers,    \* layers added to the Sequential model so far
    hidden     \* completed iterations of the hidden-layer loop

vars == <<LPred, LTrue, accStatus, cmStatus, accCMStatus, acc, compared,
          classNum, cM, counted, accCM, divided, dpc, cfg, optimizer, layers,
          hidden>>

evalVars == <<LPred, LTrue, accStatus, cmStatus, accCMStatus, acc, compared,
              classNum, cM, counted, accCM, divided>>

dnnVars == <<dpc, cfg, optimizer, layers, hidden>>

----------------------------------------------------------------------------
(* Bounds of the explored inputs. *)

MaxLen == 3

MaxLabel == 1

MaxHidden == 2

\* labels are integers; a negative one is included because numpy gives
\* negative indices a meaning of their own
MinLabel == 0 - 1

Labels == MinLabel..MaxLabel

RECURSIVE SeqsUpTo(_, _)
SeqsUpTo(S, n) ==
    IF n = 0 THEN {<<>>}
    ELSE LET shorter == SeqsUpTo(S, n - 1)
         IN  shorter \cup {Append(s, x) : s \in {t \in shorter : Len(t) = n - 1}, x \in S}

LabelSeqs == SeqsUpTo(Labels, MaxLen)

----------------------------------------------------------------------------
(* Numeric helpers: Python/numpy arithmetic used by the three functions. *)

Min(a, b) == IF a < b THEN a ELSE b

RECURSIVE GCD(_, _)
GCD(a, b) == IF b = 0 THEN a ELSE GCD(b, a % b)

\* no value: the function has not returned one
NoValue == [kind |-> "none", num |-> 0, den |-> 0]

NaN == [kind |-> "nan", num |-> 0, den |-> 0]

Inf == [kind |-> "inf", num |-> 0, den |-> 0]

\* (TrueDivide_Swapped: the operands exchanged, N / trueCount.)
\* numpy true division of two non-negative counts.  The quotient is kept as
\* the fraction in lowest terms, so two quotients are equal exactly when the
\* correctly rounded floats are; x/0 does not raise in numpy, it yields nan
\* (0/0) or inf with a RuntimeWarning.
TrueDivide_Swapped(a, b) ==
    IF a = 0 THEN (IF b = 0 THEN NaN ELSE Inf)
    ELSE LET g == GCD(b, a)
         IN  [kind |-> "num", num |-> b \div g, den |-> a \div g]

TrueDivide(a, b) ==
    IF b = 0 THEN (IF a = 0 THEN NaN ELSE Inf)
    ELSE LET g == GCD(a, b)
         IN  [kind |-> "num", num |-> a \div g, den |-> b \div g]

\* LPred == LTrue on two arrays of the same length: elementwise comparison.
\* (Comparison_Broadcast: every prediction compared with the first true label.)
Comparison_Broadcast(P, T) == [i \in 1..Len(P) |-> P[i] = T[1]]

Comparison(P, T) == [i \in 1..Len(P) |-> P[i] = T[i]]

\* np.sum of a boolean array: True counts 1, False counts 0.
RECURSIVE NpSumBool(_)
NpSumBool(b) ==
    IF b = <<>> THEN 0
    ELSE (IF Head(b) THEN 1 ELSE 0) + NpSumBool(Tail(b))

\* the guard of line 17
\* (LengthsDiffer_OneSided: only a longer LPred is rejected.)
LengthsDiffer_OneSided(P, T) == Len(P) > Len(T)

LengthsDiffer(P, T) == Len(P) # Len(T)

----------------------------------------------------------------------------
(* calcConfusionMatrix helpers *)

\* np.concatenate((LPred, LTrue))
Concatenate(P, T) == P \o T

RECURSIVE SortedSeq(_)
SortedSeq(S) ==
    IF S = {} THEN <<>>
    ELSE LET m == CHOOSE x \in S : \A y \in S : x <= y
         IN  <<m>> \o SortedSeq(S \ {m})

\* np.unique: the sorted distinct values of an array
Unique(s) == SortedSeq({s[i] : i \in 1..Len(s)})

\* np.zeros((classNum, classNum))
Zeros(K) == [ij \in (0..(K - 1)) \X (0..(K - 1)) |-> 0]

\* numpy accepts an integer index v on an axis of size K iff -K <= v < K
IndexInBounds(v, K) == (0 - K) <= v /\ v < K

\* a negative index addresses from the end of the axis
NormIndex(v, K) == IF v < 0 THEN v + K ELSE v

\* the loop of lines 57-58 from zip position i on: cM[pred,true] is addressed
\* by the raw label values; an index outside the axis raises IndexError and
\* the function returns nothing.
RECURSIVE CountPairs(_, _, _, _, _)
CountPairs(m, K, P, T, i) ==
    IF i > Min(Len(P), Len(T))
    THEN [status |-> "ok", cM |-> m, counted |-> i - 1]
    ELSE IF ~ (IndexInBounds(P[i], K) /\ IndexInBounds(T[i], K))
    THEN [status |-> "IndexError", cM |-> Zeros(0), counted |-> i - 1]
    ELSE LET cell == <<NormIndex(P[i], K), NormIndex(T[i], K)>>
         IN  CountPairs([m EXCEPT ![cell] = @ + 1], K, P, T, i + 1)

RECURSIVE SumOver(_, _)
SumOver(m, cells) ==
    IF cells = {} THEN 0
    ELSE LET c == CHOOSE x \in cells : TRUE
         IN  m[c] + SumOver(m, cells \ {c})

\* np.sum(cM)
MatrixSum(m) == SumOver(m, DOMAIN m)

\* np.trace(cM)
Trace(m) == SumOver(m, {c \in DOMAIN m : c[1] = c[2]})

----------------------------------------------------------------------------
(* build_DNN helpers: optimizer selection and layer assembly. *)

\* str.lower() on the letters that occur in the explored optimizer names
LowerChar(c) ==
    CASE c = "S" -> "s"
      [] c = "G" -> "g"
      [] c = "D" -> "d"
      [] c = "A" -> "a"
      [] c = "M" -> "m"
      [] OTHER -> c

Lower(name) == [i \in 1..Len(name) |-> LowerChar(name[i])]

\* optimizer strings passed by callers, one character per element
OptimizerNames ==
    { <<"s", "g", "d">>, <<"S", "G", "D">>, <<"S", "g", "d">>,
      <<"a", "d", "a", "m">>, <<"A", "d", "a", "m">>, <<"A", "D", "A", "M">>,
      <<"r", "m", "s", "p", "r", "o", "p">>, <<"s", "g", "d", " ">>, <<>> }

\* the defaults of the signature, lines 53-54
DefaultCfg ==
    [n_hidden_layers |-> 0, use_bn |-> FALSE, use_dropout |-> FALSE,
     use_custom_dropout |-> FALSE, use_variational_layer |-> FALSE,
     optimizer |-> <<"s", "g", "d">>]

Configs ==
    [n_hidden_layers : 0..MaxHidden, use_bn : BOOLEAN, use_dropout : BOOLEAN,
     use_custom_dropout : BOOLEAN, use_variational_layer : BOOLEAN,
     optimizer : OptimizerNames]

\* model.add(layer) when the flag is set
AddIf(flag, model, layer) == IF flag THEN Append(model, layer) ELSE model

\* lines 97-101: the Input layer and the optional BatchNormalization
AddInputLayers(model, c) ==
    AddIf(c.use_bn, Append(model, "Input"), "BatchNormalization")

\* one iteration of the loop of lines 104-123
\* (AddHiddenLayers_ActFirst: the activation placed before BatchNormalization.)
AddHiddenLayers_ActFirst(model, c) ==
    LET m1 == IF c.use_variational_layer
              THEN Append(model, "DenseVariational")
              ELSE Append(model, "Dense")
        m2 == Append(m1, "Activation")
        m3 == AddIf(c.use_bn, m2, "BatchNormalization")
        m4 == AddIf(c.use_dropout, m3, "Dropout(0.5)")
    IN  AddIf(c.use_custom_dropout, m4, "myDropout(0.5)")

AddHiddenLayers(model, c) ==
    LET m1 == IF c.use_variational_layer
              THEN Append(model, "DenseVariational")
              ELSE Append(model, "Dense")
        m2 == AddIf(c.use_bn, m1, "BatchNormalization")
        m3 == Append(m2, "Activation")
        m4 == AddIf(c.use_dropout, m3, "Dropout(0.5)")
    IN  AddIf(c.use_custom_dropout, m4, "myDropout(0.5)")

\* line 127
AddFinalLayer(model) == Append(model, "Dense(1,sigmoid)")


----------------------------------------------------------------------------
(* The evaluation helpers as actions. *)

Init ==
    /\ LPred \in LabelSeqs
    /\ LTrue \in LabelSeqs
    /\ accStatus = "none"
    /\ cmStatus = "none"
    /\ accCMStatus = "none"
    /\ acc = NoValue
    /\ compared = 0
    /\ classNum = 0
    /\ cM = Zeros(0)
    /\ counted = 0
    /\ accCM = NoValue
    /\ divided = FALSE
    /\ dpc = "idle"
    /\ cfg = DefaultCfg
    /\ optimizer = "unset"
    /\ layers = <<>>
    /\ hidden = 0

\* calcAccuracy(LPred, LTrue), lines 17-31
calcAccuracy ==
    /\ accStatus = "none"
    /\ IF LengthsDiffer(LPred, LTrue)
       THEN /\ accStatus' = "ValueError"
            /\ acc' = NoValue
            /\ compared' = 0
       ELSE LET N == Len(LPred)
                comparison == Comparison(LPred, LTrue)
                trueCount == NpSumBool(comparison)
            IN  /\ accStatus' = "ok"
                /\ acc' = TrueDivide(trueCount, N)
                /\ compared' = Len(comparison)
    /\ UNCHANGED <<LPred, LTrue, cmStatus, accCMStatus, classNum, cM, counted,
                   accCM, divided>>
    /\ UNCHANGED dnnVars

\* calcConfusionMatrix(LPred, LTrue), lines 52-61
calcConfusionMatrix ==
    /\ cmStatus = "none"
    /\ LET results == Concatenate(LPred, LTrue)
           labels == Unique(results)
           K == Len(labels)
           r == CountPairs(Zeros(K), K, LPred, LTrue, 1)
       IN  /\ classNum' = K
           /\ cmStatus' = r.status
           /\ cM' = r.cM
           /\ counted' = r.counted
    /\ UNCHANGED <<LPred, LTrue, accStatus, accCMStatus, acc, compared, accCM,
                   divided>>
    /\ UNCHANGED dnnVars

\* calcAccuracyCM(cM), lines 78-84, on the matrix calcConfusionMatrix returned
calcAccuracyCM ==
    /\ cmStatus = "ok"
    /\ accCMStatus = "none"
    /\ LET trueSum == Trace(cM)
           N == MatrixSum(cM)
       IN  /\ accCM' = TrueDivide(trueSum, N)
           /\ divided' = TRUE
    /\ accCMStatus' = "ok"
    /\ UNCHANGED <<LPred, LTrue, accStatus, cmStatus, acc, compared, classNum,
                   cM, counted>>
    /\ UNCHANGED dnnVars

Next == calcAccuracy \/ calcConfusionMatrix \/ calcAccuracyCM

Spec == Init /\ [][Next]_vars

----------------------------------------------------------------------------
(* build_DNN as a sequence of steps. *)

InitDNN ==
    /\ LPred = <<>>
    /\ LTrue = <<>>
    /\ accStatus = "none"
    /\ cmStatus = "none"
    /\ accCMStatus = "none"
    /\ acc = NoValue
    /\ compared = 0
    /\ classNum = 0
    /\ cM = Zeros(0)
    /\ counted = 0
    /\ accCM = NoValue
    /\ divided = FALSE
    /\ dpc = "call"
    /\ cfg \in Configs
    /\ optimizer = "unset"
    /\ layers = <<>>
    /\ hidden = 0

\* lines 79-84: the optimizer is chosen from the lower-cased name
SetupOptimizer ==
    /\ dpc = "call"
    /\ IF Lower(cfg.optimizer) = <<"s", "g", "d">>
       THEN optimizer' = "SGD" /\ dpc' = "model"
       ELSE IF Lower(cfg.optimizer) = <<"a", "d", "a", "m">>
       THEN optimizer' = "Adam" /\ dpc' = "model"
       ELSE optimizer' = "unset" /\ dpc' = "ValueError"
    /\ UNCHANGED <<cfg, layers, hidden>>
    /\ UNCHANGED evalVars

\* lines 89-101: Sequential() and the input layers
AddInput ==
    /\ dpc = "model"
    /\ layers' = AddInputLayers(<<>>, cfg)
    /\ hidden' = 0
    /\ dpc' = "loop"
    /\ UNCHANGED <<cfg, optimizer>>
    /\ UNCHANGED evalVars

\* lines 104-123: one pass of for _ in range(n_hidden_layers)
AddHidden ==
    /\ dpc = "loop"
    /\ hidden < cfg.n_hidden_layers
    /\ layers' = AddHiddenLayers(layers, cfg)
    /\ hidden' = hidden + 1
    /\ UNCHANGED <<dpc, cfg, optimizer>>
    /\ UNCHANGED evalVars

\* lines 127-137: the output layer, compile and return
AddFinal ==
    /\ dpc = "loop"
    /\ hidden >= cfg.n_hidden_layers
    /\ layers' = AddFinalLayer(layers)
    /\ dpc' = "returned"
    /\ UNCHANGED <<cfg, optimizer, hidden>>
    /\ UNCHANGED evalVars

NextDNN == SetupOptimizer \/ AddInput \/ AddHidden \/ AddFinal

SpecDNN == InitDNN /\ [][NextDNN]_vars

----------------------------------------------------------------------------
(* Properties of the evaluation helpers (checked under Spec). *)

SameLength == Len(LPred) = Len(LTrue)

\* number of positions at which the two label sequences agree
Matches == Cardinality({i \in 1..Min(Len(LPred), Len(LTrue)) : LPred[i] = LTrue[i]})

\* the distinct labels of both sequences
LabelSet == {LPred[i] : i \in 1..Len(LPred)} \cup {LTrue[i] : i \in 1..Len(LTrue)}

\* position (from 0) of label v in the ascending order of LabelSet
Rank(v) == Cardinality({w \in LabelSet : w < v})

\* number of samples predicted as the label of rank i whose true label has rank j
PairCount(i, j) ==
    Cardinality({s \in 1..Min(Len(LPred), Len(LTrue)) :
                    Rank(LPred[s]) = i /\ Rank(LTrue[s]) = j})

\* C1: for equal-length sequences with N >= 1, calcAccuracy returns exactly
\* (number of positions where predicted and actual agree) / N.
C1_AccuracyIsMatchFraction ==
    (accStatus # "none" /\ SameLength /\ Len(LPred) >= 1) =>
        /\ accStatus = "ok"
        /\ acc.kind = "num"
        /\ acc.den > 0
        /\ acc.num * Len(LPred) = Matches * acc.den

\* C1 witness: three samples of which exactly two agree, accuracy returned.
C1_Witness ==
    /\ accStatus = "ok"
    /\ Len(LPred) = 3 /\ Len(LTrue) = 3
    /\ Matches = 2
    /\ acc = [kind |-> "num", num |-> 2, den |-> 3]

\* C2: when the lengths differ calcAccuracy ends in the length-mismatch error,
\* returns no accuracy, and has compared no labels.
C2_LengthMismatchRaised ==
    (accStatus # "none" /\ ~ SameLength) =>
        /\ accStatus = "ValueError"
        /\ acc = NoValue
        /\ compared = 0

\* C2 witness: calcAccuracy was called on sequences of lengths 1 and 3 (whose
\* first labels agree) and raised.
C2_Witness ==
    /\ accStatus = "ValueError"
    /\ Len(LPred) = 1 /\ Len(LTrue) = 3
    /\ LPred[1] = LTrue[1]

\* C3: for equal-length sequences calcConfusionMatrix returns the matrix whose
\* entry (i, j) is the number of samples whose predicted label is the i-th and
\* whose true label is the j-th label in the sorted order of the distinct
\* labels.
C3_CellsFollowCanonicalOrder ==
    (cmStatus # "none" /\ SameLength) =>
        /\ cmStatus = "ok"
        /\ \A i \in 0..(Cardinality(LabelSet) - 1) :
             \A j \in 0..(Cardinality(LabelSet) - 1) :
                /\ <<i, j>> \in DOMAIN cM
                /\ cM[<<i, j>>] = PairCount(i, j)

\* C4: for equal-length sequences the entries of the returned confusion
\* matrix sum to N.
C4_MatrixSumIsN ==
    (cmStatus # "none" /\ SameLength) =>
        /\ cmStatus = "ok"
        /\ MatrixSum(cM) = Len(LPred)

\* C5: for equal-length sequences with N >= 1 the accuracy computed from the
\* labels equals the accuracy computed from their confusion matrix.
C5_AccuracyPathsAgree ==
    (accStatus = "ok" /\ accCMStatus = "ok" /\ SameLength /\ Len(LPred) >= 1) =>
        accCM = acc

\* C6: for equal-length sequences calcConfusionMatrix succeeds with a K x K
\* matrix, K the number of distinct labels of both sequences, and every
\* sample is counted in it.
C6_MatrixCoversLabelUnion ==
    (cmStatus # "none" /\ SameLength) =>
        /\ cmStatus = "ok"
        /\ classNum = Cardinality(LabelSet)
        /\ DOMAIN cM = (0..(classNum - 1)) \X (0..(classNum - 1))
        /\ counted = Len(LPred)

\* C7: on a matrix whose entries sum to zero calcAccuracyCM ends in an
\* explicit error and never evaluates trace/sum.
C7_ZeroSumIsAnError ==
    (accCMStatus # "none" /\ MatrixSum(cM) = 0) =>
        /\ accCMStatus = "DegenerateInput"
        /\ ~ divided
        /\ accCM.kind \notin {"nan", "inf"}

\* C8: for equal-length sequences with N >= 1 the accuracy lies in [0, 1]; it
\* is 1 exactly when all positions agree and 0 exactly when none does.
C8_AccuracyInUnitInterval ==
    (accStatus # "none" /\ SameLength /\ Len(LPred) >= 1) =>
        /\ acc.kind = "num"
        /\ acc.den > 0
        /\ 0 <= acc.num /\ acc.num <= acc.den
        /\ (acc.num = acc.den) <=> (\A i \in 1..Len(LPred) : LPred[i] = LTrue[i])
        /\ (acc.num = 0) <=> (\A i \in 1..Len(LPred) : LPred[i] # LTrue[i])

\* C8 witness: three samples that agree nowhere, accuracy 0 returned.
C8_Witness ==
    /\ accStatus = "ok"
    /\ Len(LPred) = 3 /\ Len(LTrue) = 3
    /\ \A i \in 1..3 : LPred[i] # LTrue[i]
    /\ acc.kind = "num" /\ acc.num = 0

\* C9: when the lengths differ calcConfusionMatrix raises no length error, the
\* returned matrix counts exactly the first min(len) pairs, and its size is
\* the number of distinct labels of all elements of both sequences.
C9_MismatchedLengthsAreZipped ==
    (cmStatus # "none" /\ ~ SameLength) =>
        /\ cmStatus = "ok"
        /\ MatrixSum(cM) = Min(Len(LPred), Len(LTrue))
        /\ classNum = Cardinality(LabelSet)
        /\ DOMAIN cM = (0..(classNum - 1)) \X (0..(classNum - 1))

----------------------------------------------------------------------------
(* Properties of build_DNN (checked under SpecDNN). *)

\* name spells target in any mix of upper and lower case
UpperOf(c) ==
    CASE c = "s" -> "S"
      [] c = "g" -> "G"
      [] c = "d" -> "D"
      [] c = "a" -> "A"
      [] c = "m" -> "M"
      [] OTHER -> c

SpellsIgnoringCase(name, target) ==
    /\ Len(name) = Len(target)
    /\ \A i \in 1..Len(target) : name[i] \in {target[i], UpperOf(target[i])}

SupportedOptimizer ==
    \/ SpellsIgnoringCase(cfg.optimizer, <<"s", "g", "d">>)
    \/ SpellsIgnoringCase(cfg.optimizer, <<"a", "d", "a", "m">>)

Flag(b) == IF b THEN 1 ELSE 0

\* layers of one hidden block, and of the whole model
BlockLen == 2 + Flag(cfg.use_bn) + Flag(cfg.use_dropout) + Flag(cfg.use_custom_dropout)

ExpectedLen == 2 + Flag(cfg.use_bn) + cfg.n_hidden_layers * BlockLen

\* the layer the stated order puts at position k of the model
ExpectedLayer(k) ==
    LET bn == Flag(cfg.use_bn)
        r == (k - 2 - bn) % BlockLen
    IN  IF k = 1 THEN "Input"
        ELSE IF k = 2 /\ cfg.use_bn THEN "BatchNormalization"
        ELSE IF k = ExpectedLen THEN "Dense(1,sigmoid)"
        ELSE IF r = 0 THEN (IF cfg.use_variational_layer
                            THEN "DenseVariational" ELSE "Dense")
        ELSE IF r = 1 /\ cfg.use_bn THEN "BatchNormalization"
        ELSE IF r = 1 + bn THEN "Activation"
        ELSE IF r = 2 + bn /\ cfg.use_dropout THEN "Dropout(0.5)"
        ELSE "myDropout(0.5)"

\* C10: with a supported optimizer name build_DNN adds Input, BatchNormalization
\* iff use_bn, then per hidden layer Dense or DenseVariational,
\* BatchNormalization iff use_bn, Activation, Dropout(0.5) iff use_dropout,
\* myDropout(0.5) iff use_custom_dropout, and last Dense(1, sigmoid), in this
\* order, 2 + bn + n*(2 + bn + dropout + custom_dropout) layers in all; any
\* other name ends in ValueError with no layer added.
C10_LayerOrder ==
    /\ SupportedOptimizer =>
          /\ dpc # "ValueError"
          /\ Len(layers) <= ExpectedLen
          /\ \A k \in 1..Len(layers) : layers[k] = ExpectedLayer(k)
          /\ dpc = "returned" =>
                /\ Len(layers) = ExpectedLen
                /\ layers[Len(layers)] = "Dense(1,sigmoid)"
                /\ optimizer \in {"SGD", "Adam"}
    /\ ~ SupportedOptimizer =>
          /\ dpc \in {"call", "ValueError"}
          /\ layers = <<>>
          /\ optimizer = "unset"

\* C10 witness: two hidden variational layers with every optional layer
\* switched on and the optimizer given as 'Adam': 13 layers, model returned.
C10_Witness ==
    /\ dpc = "returned"
    /\ cfg.n_hidden_layers = 2
    /\ cfg.use_bn /\ cfg.use_dropout /\ cfg.use_custom_dropout
    /\ cfg.use_variational_layer
    /\ cfg.optimizer = <<"A", "d", "a", "m">>
    /\ Len(layers) = 13
    /\ layers[8] = "DenseVariational"

====
